---- MODULE Spec2Model ----
(***************************************************************************)
(* Model of the ARC-UI command-line installer (src/unnamed/part_002,       *)
(* lines 1-658): catalog lookup, Tailwind prerequisite check and           *)
(* provisioning, file fetch, dependency install and index update; and of   *)
(* the toast provider (src/unnamed/part_000, lines 225-387).               *)
(*                                                                         *)
(* Representation.  A path is a sequence of segments and a segment is a    *)
(* sequence of its dot-separated parts, so that path.join is sequence      *)
(* concatenation and filename.split('.') is the segment itself.  A file    *)
(* content is a sequence of text tokens; String.includes is "occurs as a   *)
(* contiguous sub-sequence".  A version string is a sequence of            *)
(* characters.                                                             *)
(***************************************************************************)
EXTENDS Integers, Sequences, FiniteSets, TLC

VARIABLES
    pc,            \* position of the (single-threaded) program
    packageJson,   \* package.json of the target project
    fs,            \* regular files of the target project: path -> content
    dirs,          \* directories of the target project (the root always exists)
    req,           \* answers of the operator: itemType, targetDir, name, format
    ready,         \* isTailwindReady of fetchComponent / fetchTemplate
    filesToDownload, \* the filtered file list of the current run
    fileIdx,       \* number of entries of filesToDownload already processed
    cssIdx,        \* number of entries of possibleCssPaths already visited
    log,           \* observable events of the current run, in order
    exitCode,      \* exit status of the process (-1 while running)
    faults,        \* number of file-system errors raised so far
    runs,          \* number of invocations of the operation under study so far
    start,         \* history: the project as it was when the current run began
    toasts,        \* ToastProvider: the state of useReducer(toastReducer, [])
    maxToasts,     \* ToastProvider: the maxToasts prop
    timers,        \* the pending timer of each mounted toast item: ticks left
    shown,         \* history: ticks each mounted toast item has been displayed
    lastAction     \* history: the action of the last dispatch

\* the variables of the command-line installer and those of the toasts
cliVars == <<pc, packageJson, fs, dirs, req, ready, filesToDownload, fileIdx,
             cssIdx, log, exitCode, faults, runs, start>>
toastVars == <<toasts, maxToasts, timers, shown, lastAction>>

vars == <<pc, packageJson, fs, dirs, req, ready, filesToDownload, fileIdx,
          cssIdx, log, exitCode, faults, runs, start,
          toasts, maxToasts, timers, shown, lastAction>>

(***************************************************************************)
(* Bounds of the model.                                                    *)
(***************************************************************************)
MaxFaults == 1     \* file-system errors (EACCES and the like) per behaviour
MaxRuns == 2       \* invocations of the operation under study per behaviour
MaxCssFiles == 2   \* stylesheets present before createTailwindCSSFile is called

(***************************************************************************)
(* Generic helpers.                                                        *)
(***************************************************************************)
\* s.startsWith(p)
StartsWith(s, p) ==
    /\ Len(p) <= Len(s)
    /\ SubSeq(s, 1, Len(p)) = p

\* the start positions at which `needle` occurs in `hay`
Occurrences(hay, needle) ==
    { i \in 1..(Len(hay) - Len(needle) + 1) :
        SubSeq(hay, i, i + Len(needle) - 1) = needle }

\* hay.includes(needle)
Includes(hay, needle) ==
    \/ Len(needle) = 0
    \/ Occurrences(hay, needle) # {}

\* array.filter(test), keeping order
RECURSIVE SelectSeqBy(_, _)
SelectSeqBy(s, keep) ==
    IF s = <<>> THEN <<>>
    ELSE IF keep[Head(s)] THEN <<Head(s)>> \o SelectSeqBy(Tail(s), keep)
    ELSE SelectSeqBy(Tail(s), keep)

\* the proper and improper ancestors of a directory path, itself included
Ancestors(p) == { SubSeq(p, 1, n) : n \in 1..Len(p) }

\* path.dirname
Dirname(p) == SubSeq(p, 1, Len(p) - 1)

(***************************************************************************)
(* The catalog (part_002:40-114).  A missing format is NoFormat.           *)
(***************************************************************************)
NoFormat == "none"
Formats == {"tsx", "jsx"}

components ==
    [ button |->
        [ files |-> <<
            [ filename |-> <<"Button", "tsx">>,
              url |-> "main/components/button/Button.tsx",
              format |-> "tsx" ],
            [ filename |-> <<"Button", "jsx">>,
              url |-> "main/components/button/Button.jsx",
              format |-> "jsx" ],
            [ filename |-> <<"button-animations", "css">>,
              url |-> "main/components/button/button-animations.css",
              format |-> NoFormat ] >>,
          dependencies |-> <<"clsx">>,
          devDependencies |-> <<>>,
          requiresTailwind |-> TRUE ],
      toaster |->
        [ files |-> <<
            [ filename |-> <<"Toaster", "jsx">>,
              url |-> "main/components/toaster/Toaster.jsx",
              format |-> "jsx" ] >>,
          dependencies |-> <<"react-dom">>,
          devDependencies |-> <<>>,
          requiresTailwind |-> TRUE ] ]

templates ==
    [ clientSideErrors |->
        [ files |-> <<
            [ filename |-> <<"ClientSideErrors", "tsx">>,
              url |-> "main/templates/errors/ClientSideErrors/ClientSideErrors.tsx",
              format |-> "tsx" ],
            [ filename |-> <<"ClientSideErrors", "jsx">>,
              url |-> "main/templates/errors/ClientSideErrors/ClientSideErrors.jsx",
              format |-> "jsx" ] >>,
          dependencies |-> <<>>,
          devDependencies |-> <<>>,
          requiresTailwind |-> TRUE ],
      serverSideErrors |->
        [ files |-> <<
            [ filename |-> <<"ServerSideErrors", "tsx">>,
              url |-> "main/templates/errors/ServerSideErrors/ServerSideErrors.tsx",
              format |-> "tsx" ],
            [ filename |-> <<"ServerSideErrors", "jsx">>,
              url |-> "main/templates/errors/ServerSideErrors/ServerSideErrors.jsx",
              format |-> "jsx" ] >>,
          dependencies |-> <<>>,
          devDependencies |-> <<>>,
          requiresTailwind |-> TRUE ] ]

ItemTypes == {"component", "template"}

\* catalogs in which every manifest lists its first file twice
CatalogOfDuplicating(itemType) ==
    LET catalog == IF itemType = "component" THEN components ELSE templates
    IN  [ n \in DOMAIN catalog |->
            [catalog[n] EXCEPT !.files = @ \o << @[1] >>] ]

\* the catalog a given item type is looked up in
CatalogOf(itemType) == IF itemType = "component" THEN components ELSE templates

\* components[componentName] / templates[templateName] being defined
Known(itemType, name) == name \in DOMAIN CatalogOf(itemType)

(***************************************************************************)
(* Paths of the target project, relative to process.cwd().                 *)
(***************************************************************************)
tailwindConfigPath == << <<"tailwind", "config", "js">> >>
postcssConfigPath == << <<"postcss", "config", "js">> >>
yarnLockPath == << <<"yarn", "lock">> >>
pnpmLockPath == << <<"pnpm-lock", "yaml">> >>

possibleCssPaths == <<
    << <<"src">>, <<"styles">>, <<"globals", "css">> >>,
    << <<"src">>, <<"styles">>, <<"global", "css">> >>,
    << <<"src">>, <<"index", "css">> >>,
    << <<"src">>, <<"App", "css">> >>,
    << <<"styles">>, <<"globals", "css">> >>,
    << <<"styles">>, <<"global", "css">> >>,
    << <<"css">>, <<"main", "css">> >> >>

\* the text "@tailwind base;\n@tailwind components;\n@tailwind utilities;\n"
tailwindDirectives ==
    << "@tailwind", " base;\n", "@tailwind", " components;\n",
       "@tailwind", " utilities;\n" >>

\* the needle of cssContent.includes("@tailwind")
tailwindMarker == << "@tailwind" >>

tailwindConfigContent == << "/** @type {import('tailwindcss').Config} */ export default {...}" >>
postcssConfigContent == << "export default { plugins: { tailwindcss: {}, autoprefixer: {} } }" >>

(***************************************************************************)
(* package.json.  Only the declaration of tailwindcss is modelled: each    *)
(* dependency section holds its version string, or NoVersion when the      *)
(* section does not declare the package.                                   *)
(***************************************************************************)
NoVersion == <<>>

\* a test that accepts only a version string without range prefix
isV3Unprefixed(version) == StartsWith(version, <<"3">>)

\* version.startsWith("^3") || version.startsWith("~3") || version.startsWith("3")
isV3(version) ==
    \/ StartsWith(version, <<"^", "3">>)
    \/ StartsWith(version, <<"~", "3">>)
    \/ StartsWith(version, <<"3">>)

\* a merge in which the declaration of dependencies wins
MergedTailwindDepsFirst(pj) ==
    IF pj.dependencies # NoVersion THEN pj.dependencies ELSE pj.devDependencies

\* { ...packageJson.dependencies, ...packageJson.devDependencies }.tailwindcss
MergedTailwind(pj) ==
    IF pj.devDependencies # NoVersion THEN pj.devDependencies ELSE pj.dependencies

\* checkTailwindSetup: "ok" when it returns true, else the reason it
\* returns false for
checkTailwindSetup(pj, files) ==
    IF ~(pj.exists /\ pj.valid) THEN "read-error"
    ELSE LET version == MergedTailwind(pj)
             isTailwindInstalled == version # NoVersion
             isTailwindConfigured ==
                 /\ tailwindConfigPath \in DOMAIN files
                 /\ postcssConfigPath \in DOMAIN files
         IN  IF isTailwindInstalled /\ ~isV3(version) THEN "not-v3"
             ELSE IF ~isTailwindInstalled THEN "not-installed"
             ELSE IF ~isTailwindConfigured THEN "not-configured"
             ELSE "ok"

(***************************************************************************)
(* Package manager detection and shell commands.                           *)
(***************************************************************************)
\* pm of setupTailwind (180-184)
DetectPm(files) ==
    IF yarnLockPath \in DOMAIN files THEN "yarn"
    ELSE IF pnpmLockPath \in DOMAIN files THEN "pnpm"
    ELSE "npm"

\* a detection that looks for pnpm-lock.yaml first
InstallPmPnpmFirst(files) ==
    IF pnpmLockPath \in DOMAIN files THEN "pnpm"
    ELSE IF yarnLockPath \in DOMAIN files THEN "yarn"
    ELSE "npm"

\* pm of installDependencies (343-347)
InstallPm(files) ==
    IF yarnLockPath \in DOMAIN files THEN "yarn"
    ELSE IF pnpmLockPath \in DOMAIN files THEN "pnpm"
    ELSE "npm"

\* installCmd of setupTailwind
TailwindInstallCmd(pm) ==
    IF pm = "npm" THEN <<"npm", "install", "-D", "tailwindcss@3", "postcss", "autoprefixer">>
    ELSE IF pm = "yarn" THEN <<"yarn", "add", "-D", "tailwindcss@3", "postcss", "autoprefixer">>
    ELSE <<"pnpm", "add", "-D", "tailwindcss@3", "postcss", "autoprefixer">>

\* a command that carries the dev flag whatever `dev` is
InstallCmdAlwaysDev(pm, deps, dev) ==
    IF pm = "npm" THEN <<"npm", "install", "--save-dev">> \o deps
    ELSE IF pm = "yarn" THEN <<"yarn", "add", "--dev">> \o deps
    ELSE <<"pnpm", "add", "--save-dev">> \o deps

\* command of installDependencies (349-354); the flag slot is the empty
\* string for a runtime install, as in the template literal
InstallCmd(pm, deps, dev) ==
    IF pm = "npm" THEN <<"npm", "install", IF dev THEN "--save-dev" ELSE "">> \o deps
    ELSE IF pm = "yarn" THEN <<"yarn", "add", IF dev THEN "--dev" ELSE "">> \o deps
    ELSE <<"pnpm", "add", IF dev THEN "--save-dev" ELSE "">> \o deps

(***************************************************************************)
(* File filtering, destination paths and the export line.                  *)
(***************************************************************************)
\* a filter that forgets the files without a format tag
FilterFilesTaggedOnly(files, format) ==
    SelectSeqBy(files,
        [ f \in { files[i] : i \in 1..Len(files) } |-> f.format = format ])

\* component.files.filter(file => !file.format || file.format === format)
FilterFiles(files, format) ==
    SelectSeqBy(files,
        [ f \in { files[i] : i \in 1..Len(files) } |->
            f.format = NoFormat \/ f.format = format ])

\* componentName.charAt(0).toUpperCase() + componentName.slice(1)
Capitalize ==
    [ button |-> "Button", toaster |-> "Toaster",
      clientSideErrors |-> "ClientSideErrors",
      serverSideErrors |-> "ServerSideErrors" ]

\* path.join(fullTargetDir, componentName)
ItemDir(targetDir, name) == targetDir \o << <<name>> >>

\* path.join(componentDir, file.filename)
DestPath(targetDir, name, filename) == ItemDir(targetDir, name) \o <<filename>>

\* an index file that is index.js for both formats
IndexExtAlwaysJs(format) == "js"

\* indexExt (439, 542)
IndexExt(format) == IF format = "tsx" THEN "ts" ELSE "js"

\* an index kept in the file of the button component itself
IndexPathOnFetchedFile(targetDir, format) ==
    targetDir \o << <<"button">>, <<"Button", format>> >>

\* generalIndexPath (440, 543)
IndexPath(targetDir, format) == targetDir \o << <<"index", IndexExt(format)>> >>

\* the exported symbol: the capitalised component name, or for a template
\* filesToDownload[0].filename.split('.')[0]
ExportSymbol(itemType, name, toDownload) ==
    IF itemType = "component" THEN Capitalize[name] ELSE toDownload[1].filename[1]

\* exportStatement
ExportStatement(sym, name, format) ==
    << "export { default as ", sym, " } from './", name, "/", sym, ".", format, "';\n" >>

\* response.data of axios.get(url)
RemoteContent(url) == << url >>

(***************************************************************************)
(* Events of the log.                                                      *)
(***************************************************************************)
NoPath == <<>>
packageJsonPath == << <<"package", "json">> >>

Ev(ev, path, txt) == [ev |-> ev, path |-> path, txt |-> txt]

\* the events of calls that change the file system of the target project;
\* the text of such an event is <<"ok">> or <<"fail">>
WriteEvents == {"mkdir", "write", "append"}

\* outcomes of one file-system call: it may raise an error while the budget
\* of file-system errors lasts; a call that raises changes nothing
FsOutcomes == IF faults < MaxFaults THEN {TRUE, FALSE} ELSE {TRUE}

\* fs.ensureDir(p) having succeeded
EnsureDir(ds, p) == ds \cup Ancestors(p)

(***************************************************************************)
(* Inputs of the operator.                                                 *)
(***************************************************************************)
TargetDirs == { << <<"src">>, <<"components">> >>, << <<"src">>, <<"templates">> >> }

\* a name outside both catalogs; the select prompt offers the catalog keys,
\* fetchComponent and fetchTemplate accept any string
UnknownName == "card"
\* the answer of a prompt that was cancelled (undefined)
NoSelection == ""

NameChoices(itemType) == DOMAIN CatalogOf(itemType) \cup {UnknownName, NoSelection}

NoReq == [itemType |-> "", targetDir |-> NoPath, name |-> "", format |-> ""]

\* the manifest of the current request
Manifest == CatalogOf(req.itemType)[req.name]

\* a path the operator may type at the stylesheet prompt besides the default
customCssPath == << <<"src">>, <<"main", "css">> >>
CssPromptAnswers == { possibleCssPaths[2], customCssPath }

\* what `npm install -D tailwindcss@3` records in devDependencies
installedTailwindVersion == <<"^", "3", ".", "4", ".", "1", "7">>

(***************************************************************************)
(* main (part_002:578-658) up to the call of fetchComponent/fetchTemplate. *)
(***************************************************************************)
\* validateProjectDirectory (117-127)
Validate ==
    /\ pc = "validate"
    /\ IF packageJson.exists
       THEN /\ pc' = "prompt"
            /\ exitCode' = exitCode
            /\ log' = log \o << Ev("step", NoPath, <<"validate">>) >>
       ELSE /\ pc' = "exited"
            /\ exitCode' = 1
            /\ log' = log \o << Ev("step", NoPath, <<"validate">>),
                                Ev("print", packageJsonPath, <<"Could not find package.json">>) >>
    /\ UNCHANGED <<packageJson, fs, dirs, req, ready, filesToDownload, fileIdx,
                   cssIdx, faults, runs, start>>
    /\ UNCHANGED toastVars

\* the itemType and targetDir prompts (583-600).  A cancelled targetDir
\* prompt answers undefined: path.join(process.cwd(), undefined) at 603
\* throws a TypeError, an unhandled rejection of the async main.
PromptTarget ==
    /\ pc = "prompt"
    /\ \/ /\ \E t \in ItemTypes, d \in TargetDirs :
                req' = [itemType |-> t, targetDir |-> d, name |-> "", format |-> ""]
          /\ pc' = "ensureTarget"
          /\ UNCHANGED <<log, exitCode>>
       \/ /\ log' = log \o << Ev("prompt", NoPath, <<"targetDir", "cancelled">>),
                               Ev("error", NoPath, <<"TypeError">>) >>
          /\ pc' = "crashed"
          /\ exitCode' = 1
          /\ UNCHANGED req
    /\ UNCHANGED <<packageJson, fs, dirs, ready, filesToDownload, fileIdx,
                   cssIdx, faults, runs, start>>
    /\ UNCHANGED toastVars

\* fs.ensureDir(path.join(process.cwd(), targetDir)) (603); an error is an
\* unhandled rejection of the async main
EnsureTargetDir ==
    /\ pc = "ensureTarget"
    /\ IF req.targetDir \in dirs
       THEN /\ pc' = "select"
            /\ UNCHANGED <<dirs, log, exitCode, faults>>
       ELSE \E ok \in FsOutcomes :
              IF ok
              THEN /\ dirs' = EnsureDir(dirs, req.targetDir)
                   /\ log' = log \o << Ev("mkdir", req.targetDir, <<"ok">>) >>
                   /\ pc' = "select"
                   /\ UNCHANGED <<exitCode, faults>>
              ELSE /\ faults' = faults + 1
                   /\ log' = log \o << Ev("mkdir", req.targetDir, <<"fail">>) >>
                   /\ pc' = "crashed"
                   /\ exitCode' = 1
                   /\ UNCHANGED dirs
    /\ UNCHANGED <<packageJson, fs, req, ready, filesToDownload, fileIdx,
                   cssIdx, runs, start>>
    /\ UNCHANGED toastVars

\* the item and format prompts and the guard of the call (607-630, 633-656)
SelectItem ==
    /\ pc = "select"
    /\ \E n \in NameChoices(req.itemType), f \in Formats :
          /\ req' = [req EXCEPT !.name = n, !.format = f]
          /\ IF n = NoSelection
             THEN pc' = "done" /\ exitCode' = 0
             ELSE pc' = "lookup" /\ exitCode' = exitCode
    /\ UNCHANGED <<packageJson, fs, dirs, ready, filesToDownload, fileIdx,
                   cssIdx, log, faults, runs, start>>
    /\ UNCHANGED toastVars

(***************************************************************************)
(* fetchComponent (369-469) and fetchTemplate (472-575).                   *)
(***************************************************************************)
\* a lookup whose not-found case falls through to the installation
AfterLookupNoReturn(found, requiresTailwind) ==
    IF requiresTailwind THEN "check" ELSE "ensureItemDir"

\* a lookup that is followed by the prerequisite check in every case
AfterLookupAlwaysCheck(found, requiresTailwind) == "check"

\* where fetchComponent continues after the lookup: the return at 372-375,
\* the guard at 378
AfterLookup(found, requiresTailwind) ==
    IF ~found THEN "done"
    ELSE IF requiresTailwind THEN "check"
    ELSE "ensureItemDir"

\* the catalog lookup and the not-found return (370-375, 473-478)
Lookup ==
    /\ pc = "lookup"
    /\ LET found == Known(req.itemType, req.name)
       IN  /\ log' = log \o << Ev("step", NoPath, <<"lookup">>) >>
                         \o (IF found THEN <<>>
                             ELSE << Ev("print", NoPath, <<"not found">>) >>)
           /\ pc' = AfterLookup(found, found /\ Manifest.requiresTailwind)
           /\ exitCode' = IF pc' = "done" THEN 0 ELSE exitCode
    /\ UNCHANGED <<packageJson, fs, dirs, req, ready, filesToDownload, fileIdx,
                   cssIdx, faults, runs, start>>
    /\ UNCHANGED toastVars

\* a check that writes the tailwind.config.js it looks for
CheckTailwindRepairing ==
    /\ pc = "check"
    /\ LET result == checkTailwindSetup(packageJson, fs)
       IN  /\ ready' = (result = "ok")
           /\ log' = log \o << Ev("step", NoPath, <<"prerequisite">>),
                               Ev("check", NoPath, <<result>>) >>
           /\ pc' = IF result = "ok" THEN "ensureItemDir" ELSE "confirm"
    /\ fs' = (tailwindConfigPath :> tailwindConfigContent) @@ fs
    /\ UNCHANGED <<packageJson, dirs, req, filesToDownload, fileIdx,
                   cssIdx, exitCode, faults, runs, start>>
    /\ UNCHANGED toastVars

\* const isTailwindReady = await checkTailwindSetup() (379, 482)
CheckTailwind ==
    /\ pc = "check"
    /\ LET result == checkTailwindSetup(packageJson, fs)
       IN  /\ ready' = (result = "ok")
           /\ log' = log \o << Ev("step", NoPath, <<"prerequisite">>),
                               Ev("check", NoPath, <<result>>) >>
           /\ pc' = IF result = "ok" THEN "ensureItemDir" ELSE "confirm"
    /\ UNCHANGED <<packageJson, fs, dirs, req, filesToDownload, fileIdx,
                   cssIdx, exitCode, faults, runs, start>>
    /\ UNCHANGED toastVars

\* a confirmation whose answer is not looked at
AfterConfirmAlways(setupTailwindNow) == "twInstall"

\* if (setupTailwindNow) ... else ... (389-396)
AfterConfirm(setupTailwindNow) ==
    IF setupTailwindNow THEN "twInstall" ELSE "ensureItemDir"

\* the confirmation prompt (382-396, 485-499); a cancelled prompt answers
\* undefined, which is falsy
Confirm ==
    /\ pc = "confirm"
    /\ \E setupTailwindNow \in BOOLEAN :
          /\ pc' = AfterConfirm(setupTailwindNow)
          /\ log' = log \o
                (IF setupTailwindNow
                 THEN << Ev("prompt", NoPath, <<"setupTailwindNow", "yes">>) >>
                 ELSE << Ev("prompt", NoPath, <<"setupTailwindNow", "no">>),
                         Ev("print", NoPath, <<"Proceeding without Tailwind setup">>) >>)
    /\ UNCHANGED <<packageJson, fs, dirs, req, ready, filesToDownload, fileIdx,
                   cssIdx, exitCode, faults, runs, start>>
    /\ UNCHANGED toastVars

(***************************************************************************)
(* setupTailwind (179-269) and createTailwindCSSFile (272-337).            *)
(***************************************************************************)
\* what fetchComponent prints when setupTailwind returned false (391-393)
SetupFailed ==
    << Ev("print", NoPath, <<"Failed to setup Tailwind CSS">>),
       Ev("setup", NoPath, <<"false">>),
       Ev("print", NoPath, <<"Proceeding with installation">>) >>

\* setupTailwind returning true
SetupSucceeded == << Ev("setup", NoPath, <<"true">>) >>

\* a setup that goes on to the configuration files after a failed command
AfterTwInstallAlwaysConfig(installed) == "twConfig"

\* the try of setupTailwind is left for its catch (236) when execSync
\* throws (197); setupTailwind then returns false to fetchComponent
AfterTwInstall(installed) ==
    IF installed THEN "twConfig" ELSE "ensureItemDir"

\* package manager detection and execSync(installCmd) (180-198); the
\* command cannot succeed on a package.json that is not valid JSON
TwInstall ==
    /\ pc = "twInstall"
    /\ LET cmd == TailwindInstallCmd(DetectPm(fs))
           call == << Ev("setup", NoPath, <<"start">>), Ev("exec", NoPath, cmd) >>
       IN  \E ok \in (IF packageJson.valid THEN BOOLEAN ELSE {FALSE}) :
             IF ok
             THEN /\ packageJson' =
                        [packageJson EXCEPT !.devDependencies = installedTailwindVersion]
                  /\ log' = log \o call
                  /\ pc' = AfterTwInstall(TRUE)
             ELSE /\ log' = log \o call \o SetupFailed
                  /\ pc' = AfterTwInstall(FALSE)
                  /\ UNCHANGED packageJson
    /\ UNCHANGED <<fs, dirs, req, ready, filesToDownload, fileIdx, cssIdx,
                   exitCode, faults, runs, start>>
    /\ UNCHANGED toastVars

\* the two fs.writeFile calls of the configuration files (227-228); an
\* error of either one is caught at 236
TwConfig ==
    /\ pc = "twConfig"
    /\ \E ok1 \in FsOutcomes :
          IF ~ok1
          THEN /\ log' = log \o << Ev("write", tailwindConfigPath, <<"fail">>) >> \o SetupFailed
               /\ faults' = faults + 1
               /\ pc' = "ensureItemDir"
               /\ UNCHANGED <<fs, cssIdx>>
          ELSE \E ok2 \in FsOutcomes :
                 IF ~ok2
                 THEN /\ fs' = (tailwindConfigPath :> tailwindConfigContent) @@ fs
                      /\ log' = log \o << Ev("write", tailwindConfigPath, <<"ok">>),
                                          Ev("write", postcssConfigPath, <<"fail">>) >>
                                     \o SetupFailed
                      /\ faults' = faults + 1
                      /\ pc' = "ensureItemDir"
                      /\ UNCHANGED cssIdx
                 ELSE /\ fs' = (tailwindConfigPath :> tailwindConfigContent)
                                @@ (postcssConfigPath :> postcssConfigContent) @@ fs
                      /\ log' = log \o << Ev("write", tailwindConfigPath, <<"ok">>),
                                          Ev("write", postcssConfigPath, <<"ok">>),
                                          Ev("css", NoPath, <<"start">>) >>
                      /\ pc' = "css"
                      /\ cssIdx' = 0
                      /\ UNCHANGED faults
    /\ UNCHANGED <<packageJson, dirs, req, ready, filesToDownload, fileIdx,
                   exitCode, runs, start>>
    /\ UNCHANGED toastVars

\* directives put after the content instead of before it
AppendDirectives(cssContent) == cssContent \o tailwindDirectives

\* tailwindDirectives + cssContent (297)
PrependDirectives(cssContent) == tailwindDirectives \o cssContent

\* one iteration of the loop over possibleCssPaths (290-308)
CssTry ==
    /\ pc = "css"
    /\ cssIdx < Len(possibleCssPaths)
    /\ LET cssPath == possibleCssPaths[cssIdx + 1]
       IN  IF cssPath \notin DOMAIN fs
           THEN /\ cssIdx' = cssIdx + 1
                /\ UNCHANGED <<pc, fs, log, faults>>
           ELSE \E readOk \in FsOutcomes :
                  IF ~readOk
                  THEN /\ log' = log \o << Ev("read", cssPath, <<"fail">>) >>
                       /\ faults' = faults + 1
                       /\ cssIdx' = cssIdx + 1
                       /\ UNCHANGED <<pc, fs>>
                  ELSE IF Includes(fs[cssPath], tailwindMarker)
                  THEN /\ log' = log \o << Ev("read", cssPath, <<"ok">>),
                                           Ev("print", cssPath, <<"already has Tailwind directives">>) >>
                                      \o SetupSucceeded
                       /\ pc' = "ensureItemDir"
                       /\ UNCHANGED <<fs, faults, cssIdx>>
                  ELSE \E writeOk \in FsOutcomes :
                         IF writeOk
                         THEN /\ fs' = [fs EXCEPT ![cssPath] = PrependDirectives(@)]
                              /\ log' = log \o << Ev("read", cssPath, <<"ok">>),
                                                  Ev("write", cssPath, <<"ok">>),
                                                  Ev("print", cssPath, <<"Updated with Tailwind directives">>) >>
                                             \o SetupSucceeded
                              /\ pc' = "ensureItemDir"
                              /\ UNCHANGED <<faults, cssIdx>>
                         ELSE /\ log' = log \o << Ev("read", cssPath, <<"ok">>),
                                                  Ev("write", cssPath, <<"fail">>) >>
                              /\ faults' = faults + 1
                              /\ cssIdx' = cssIdx + 1
                              /\ UNCHANGED <<pc, fs>>
    /\ UNCHANGED <<packageJson, dirs, req, ready, filesToDownload, fileIdx,
                   exitCode, runs, start>>
    /\ UNCHANGED toastVars

\* the prompt for a stylesheet path and the creation of the file (312-336).
\* A cancelled prompt answers undefined: path.join throws outside the try
\* of createTailwindCSSFile and the catch of setupTailwind (236) takes it.
CssPrompt ==
    /\ pc = "css"
    /\ cssIdx = Len(possibleCssPaths)
    /\ \/ /\ log' = log \o << Ev("prompt", NoPath, <<"cssPath", "cancelled">>) >> \o SetupFailed
          /\ UNCHANGED <<fs, dirs, faults>>
       \/ \E cssPath \in CssPromptAnswers :
            LET asked == << Ev("prompt", cssPath, <<"cssPath">>) >>
                dir == Dirname(cssPath)
            IN  \E dirOk \in (IF dir \in dirs THEN {TRUE} ELSE FsOutcomes) :
                  IF ~dirOk
                  THEN /\ log' = log \o asked \o << Ev("mkdir", dir, <<"fail">>) >>
                                      \o SetupSucceeded
                       /\ faults' = faults + 1
                       /\ UNCHANGED <<fs, dirs>>
                  ELSE \E writeOk \in FsOutcomes :
                         LET made == IF dir \in dirs THEN <<>>
                                     ELSE << Ev("mkdir", dir, <<"ok">>) >>
                         IN  /\ dirs' = EnsureDir(dirs, dir)
                             /\ IF writeOk
                                THEN /\ fs' = (cssPath :> tailwindDirectives) @@ fs
                                     /\ log' = log \o asked \o made
                                                   \o << Ev("write", cssPath, <<"ok">>) >>
                                                   \o SetupSucceeded
                                     /\ UNCHANGED faults
                                ELSE /\ log' = log \o asked \o made
                                                   \o << Ev("write", cssPath, <<"fail">>) >>
                                                   \o SetupSucceeded
                                     /\ faults' = faults + 1
                                     /\ UNCHANGED fs
    /\ pc' = "ensureItemDir"
    /\ UNCHANGED <<packageJson, req, ready, filesToDownload, fileIdx, cssIdx,
                   exitCode, runs, start>>
    /\ UNCHANGED toastVars

(***************************************************************************)
(* fetchComponent / fetchTemplate, continued: the fetch, the dependency    *)
(* installs, the report and the index update.                              *)
(***************************************************************************)
\* fs.ensureDir(componentDir) (401-403, 504-506); the call is outside every
\* try, an error is an unhandled rejection
EnsureItemDir ==
    /\ pc = "ensureItemDir"
    /\ LET componentDir == ItemDir(req.targetDir, req.name)
       IN  IF componentDir \in dirs
           THEN /\ pc' = "filter"
                /\ UNCHANGED <<dirs, log, exitCode, faults>>
           ELSE \E ok \in FsOutcomes :
                  IF ok
                  THEN /\ dirs' = EnsureDir(dirs, componentDir)
                       /\ log' = log \o << Ev("mkdir", componentDir, <<"ok">>) >>
                       /\ pc' = "filter"
                       /\ UNCHANGED <<exitCode, faults>>
                  ELSE /\ faults' = faults + 1
                       /\ log' = log \o << Ev("mkdir", componentDir, <<"fail">>) >>
                       /\ pc' = "crashed"
                       /\ exitCode' = 1
                       /\ UNCHANGED dirs
    /\ UNCHANGED <<packageJson, fs, req, ready, filesToDownload, fileIdx,
                   cssIdx, runs, start>>
    /\ UNCHANGED toastVars

\* const filesToDownload = component.files.filter(...) (407-410, 510-513)
Filter ==
    /\ pc = "filter"
    /\ filesToDownload' = FilterFiles(Manifest.files, req.format)
    /\ fileIdx' = 0
    /\ log' = log \o << Ev("step", NoPath, <<"fetch">>) >>
    /\ pc' = IF filesToDownload' = <<>> THEN "deps" ELSE "fetch"
    /\ UNCHANGED <<packageJson, fs, dirs, req, ready, cssIdx, exitCode,
                   faults, runs, start>>
    /\ UNCHANGED toastVars

\* a write that appends to a file that exists
WriteFileAppending(files, p, data) ==
    IF p \in DOMAIN files THEN [files EXCEPT ![p] = @ \o data]
    ELSE (p :> data) @@ files

\* fs.writeFile(destPath, response.data) (418, 521) having succeeded
WriteFile(files, p, data) == (p :> data) @@ files

\* a loop that is left at the first file that fails
AfterFetchStopOnFailure(added, done, total) ==
    IF ~added \/ done = total THEN "deps" ELSE "fetch"

\* the loop over filesToDownload goes on to its next file whether the
\* current one was added or not (420-426), and ends after the last one
AfterFetch(added, done, total) ==
    IF done = total THEN "deps" ELSE "fetch"

\* one iteration of the loop over filesToDownload (413-427, 516-530)
FetchFile ==
    /\ pc = "fetch"
    /\ fileIdx < Len(filesToDownload)
    /\ LET file == filesToDownload[fileIdx + 1]
           destPath == DestPath(req.targetDir, req.name, file.filename)
       IN  \E got \in BOOLEAN :
             IF ~got
             THEN /\ log' = log \o << Ev("get", destPath, <<file.url, "fail">>),
                                      Ev("print", destPath, <<"Failed to add">>) >>
                  /\ pc' = AfterFetch(FALSE, fileIdx + 1, Len(filesToDownload))
                  /\ UNCHANGED <<fs, faults>>
             ELSE \E writeOk \in FsOutcomes :
                    IF writeOk
                    THEN /\ fs' = WriteFile(fs, destPath, RemoteContent(file.url))
                         /\ log' = log \o << Ev("get", destPath, <<file.url, "ok">>),
                                             Ev("write", destPath, <<"ok">>),
                                             Ev("print", destPath, <<"Added">>) >>
                         /\ pc' = AfterFetch(TRUE, fileIdx + 1, Len(filesToDownload))
                         /\ UNCHANGED faults
                    ELSE /\ log' = log \o << Ev("get", destPath, <<file.url, "ok">>),
                                             Ev("write", destPath, <<"fail">>),
                                             Ev("print", destPath, <<"Failed to add">>) >>
                         /\ pc' = AfterFetch(FALSE, fileIdx + 1, Len(filesToDownload))
                         /\ faults' = faults + 1
                         /\ UNCHANGED fs
    /\ fileIdx' = fileIdx + 1
    /\ UNCHANGED <<packageJson, dirs, req, ready, filesToDownload, cssIdx,
                   exitCode, runs, start>>
    /\ UNCHANGED toastVars

\* installDependencies(deps, dev) (340-366): the events of the call when the
\* shell command, if one is issued, ends as `ok` says
installDependencies(files, deps, dev, ok) ==
    IF Len(deps) = 0 THEN <<>>
    ELSE LET command == InstallCmd(InstallPm(files), deps, dev)
         IN  << Ev("exec", NoPath, command),
                Ev("print", NoPath,
                   IF ok THEN <<"Dependencies installed successfully">>
                   ELSE <<"Failed to install dependencies">> \o command) >>

\* await installDependencies(component.dependencies) (430, 533)
InstallRuntime ==
    /\ pc = "deps"
    /\ \E ok \in (IF Len(Manifest.dependencies) = 0 THEN {TRUE} ELSE BOOLEAN) :
          log' = log \o << Ev("step", NoPath, <<"deps">>) >>
                     \o installDependencies(fs, Manifest.dependencies, FALSE, ok)
    /\ pc' = "devDeps"
    /\ UNCHANGED <<packageJson, fs, dirs, req, ready, filesToDownload, fileIdx,
                   cssIdx, exitCode, faults, runs, start>>
    /\ UNCHANGED toastVars

\* await installDependencies(component.devDependencies, true) (431, 534)
InstallDev ==
    /\ pc = "devDeps"
    /\ \E ok \in (IF Len(Manifest.devDependencies) = 0 THEN {TRUE} ELSE BOOLEAN) :
          log' = log \o << Ev("step", NoPath, <<"devDeps">>) >>
                     \o installDependencies(fs, Manifest.devDependencies, TRUE, ok)
    /\ pc' = "report"
    /\ UNCHANGED <<packageJson, fs, dirs, req, ready, filesToDownload, fileIdx,
                   cssIdx, exitCode, faults, runs, start>>
    /\ UNCHANGED toastVars

\* the success message (433-435, 536-538)
Report ==
    /\ pc = "report"
    /\ log' = log \o << Ev("step", NoPath, <<"report">>),
                        Ev("print", NoPath, <<"has been added successfully">>) >>
    /\ pc' = "index"
    /\ UNCHANGED <<packageJson, fs, dirs, req, ready, filesToDownload, fileIdx,
                   cssIdx, exitCode, faults, runs, start>>
    /\ UNCHANGED toastVars

\* a duplicate test that never finds the export
NeverExported(currentContent, exportStatement) == FALSE

\* currentContent.includes(exportStatement) (456, 562)
AlreadyExported(currentContent, exportStatement) ==
    Includes(currentContent, exportStatement)

\* an append that puts the text before the content
AppendFilePrepending(files, p, data) == [files EXCEPT ![p] = data \o @]

\* fs.appendFile(generalIndexPath, exportStatement) (457, 563) having
\* succeeded on an existing file
AppendFile(files, p, data) == [files EXCEPT ![p] = @ \o data]

\* the body of the try of the index update (447-461, 553-567): the files and
\* the events it leaves when the call named by failAt, if reached, raises
IndexUpdate(files, path, stmt, failAt) ==
    LET absent == path \notin DOMAIN files
        failure == << Ev("print", path, <<"Failed to update index">>) >>
    IN  IF absent /\ failAt = "create"
        THEN [fs |-> files, failed |-> TRUE,
              log |-> << Ev("write", path, <<"fail">>) >> \o failure]
        ELSE
        LET f1 == IF absent THEN (path :> <<>>) @@ files ELSE files
            ev1 == IF absent
                   THEN << Ev("write", path, <<"ok">>),
                           Ev("print", path, <<"Created new index">>) >>
                   ELSE <<>>
        IN  IF failAt = "read"
            THEN [fs |-> f1, failed |-> TRUE,
                  log |-> ev1 \o << Ev("read", path, <<"fail">>) >> \o failure]
            ELSE IF AlreadyExported(f1[path], stmt)
            THEN [fs |-> f1, failed |-> FALSE,
                  log |-> ev1 \o << Ev("read", path, <<"ok">>),
                                    Ev("print", path, <<"Export already exists">>) >>]
            ELSE IF failAt = "append"
            THEN [fs |-> f1, failed |-> TRUE,
                  log |-> ev1 \o << Ev("read", path, <<"ok">>),
                                    Ev("append", path, <<"fail">>) >> \o failure]
            ELSE [fs |-> AppendFile(f1, path, stmt), failed |-> FALSE,
                  log |-> ev1 \o << Ev("read", path, <<"ok">>),
                                    Ev("append", path, <<"ok">>),
                                    Ev("print", path, <<"Updated index">>) >>]

\* the index update (437-468, 540-574).  For a template the export symbol
\* is read from filesToDownload[0] outside the try (547).
UpdateIndex ==
    /\ pc = "index"
    /\ IF req.itemType = "template" /\ filesToDownload = <<>>
       THEN /\ log' = log \o << Ev("step", NoPath, <<"index">>),
                                Ev("error", NoPath, <<"TypeError">>) >>
            /\ pc' = "crashed"
            /\ exitCode' = 1
            /\ UNCHANGED <<fs, faults>>
       ELSE \E failAt \in {"none"} \cup
                          (IF faults < MaxFaults THEN {"create", "read", "append"} ELSE {}) :
              LET sym == ExportSymbol(req.itemType, req.name, filesToDownload)
                  r == IndexUpdate(fs, IndexPath(req.targetDir, req.format),
                                   ExportStatement(sym, req.name, req.format), failAt)
              IN  /\ failAt = "none" \/ r.failed
                  /\ fs' = r.fs
                  /\ faults' = IF r.failed THEN faults + 1 ELSE faults
                  /\ log' = log \o << Ev("step", NoPath, <<"index">>) >> \o r.log
                  /\ pc' = "done"
                  /\ exitCode' = 0
    /\ UNCHANGED <<packageJson, dirs, req, ready, filesToDownload, fileIdx,
                   cssIdx, runs, start>>
    /\ UNCHANGED toastVars

(***************************************************************************)
(* Project states the tool may be started in.                              *)
(***************************************************************************)
EmptyFs == [p \in {} |-> <<>>]

missingPackageJson ==
    [exists |-> FALSE, valid |-> FALSE, dependencies |-> NoVersion, devDependencies |-> NoVersion]
invalidPackageJson ==
    [exists |-> TRUE, valid |-> FALSE, dependencies |-> NoVersion, devDependencies |-> NoVersion]
PackageJsonOf(dep, dev) ==
    [exists |-> TRUE, valid |-> TRUE, dependencies |-> dep, devDependencies |-> dev]

\* version strings: an optional range prefix, the major version, ".0"
VersionPrefixes == { <<>>, <<"^">>, <<"~">> }
MajorNumerals == { <<"2">>, <<"3">>, <<"4">>, <<"1", "3">>, <<"3", "0">> }
VersionStrings == { p \o m \o <<".", "0">> : p \in VersionPrefixes, m \in MajorNumerals }

\* configuration files written by the user beforehand
userTailwindConfig == << "module.exports = { theme: { extend: { colors: {} } } }" >>
userPostcssConfig == << "module.exports = { plugins: [] }" >>
CfgStates ==
    { EmptyFs,
      tailwindConfigPath :> userTailwindConfig,
      postcssConfigPath :> userPostcssConfig,
      (tailwindConfigPath :> userTailwindConfig) @@ (postcssConfigPath :> userPostcssConfig) }

LockStates ==
    { EmptyFs, yarnLockPath :> <<>>, pnpmLockPath :> <<>>,
      (yarnLockPath :> <<>>) @@ (pnpmLockPath :> <<>>) }

\* stylesheet contents: without and with the directive marker, and empty
CssContents == { << "body{}\n" >>, << "@tailwind", " base;\n", "body{}\n" >>, <<>> }

\* the states of the file system in which at most n of the given paths
\* exist, each with one of the given contents
FsStates(paths, contents, n) ==
    UNION { [P -> contents] : P \in { Q \in SUBSET paths : Cardinality(Q) <= n } }

AllCssPaths == { possibleCssPaths[i] : i \in 1..Len(possibleCssPaths) } \cup CssPromptAnswers

\* index files: empty, with foreign text, and with the export line of
\* Button.tsx cut before its last token
IndexContents ==
    { <<>>, << "// components\n" >>,
      SubSeq(ExportStatement("Button", "button", "tsx"), 1, 8) }
IndexPaths == { IndexPath(d, f) : d \in TargetDirs, f \in Formats }

\* the directories that the files of a file system presuppose
DirsOf(files) == UNION { Ancestors(Dirname(p)) : p \in DOMAIN files }

TypeOK ==
    /\ pc \in {"validate", "prompt", "ensureTarget", "select", "lookup", "check",
               "confirm", "twInstall", "twConfig", "css", "ensureItemDir", "filter",
               "fetch", "deps", "devDeps", "report", "index", "done", "exited",
               "crashed", "install"}
    /\ exitCode \in {-1, 0, 1}
    /\ faults \in 0..MaxFaults
    /\ fileIdx \in 0..Len(filesToDownload)
    /\ cssIdx \in 0..Len(possibleCssPaths)

\* the state of the program variables before anything has run
Fresh ==
    /\ ready = FALSE
    /\ cssIdx = 0
    /\ log = <<>>
    /\ exitCode = -1
    /\ faults = 0
    /\ runs = 1
    /\ start = [fs |-> fs, dirs |-> dirs, packageJson |-> packageJson]

\* no toast provider is mounted
NoToasts ==
    /\ toasts = <<>>
    /\ maxToasts = 5
    /\ timers = EmptyFs
    /\ shown = EmptyFs
    /\ lastAction = [type |-> "", payload |-> ""]

(***************************************************************************)
(* Spec: one invocation of the CLI.                                        *)
(***************************************************************************)
Init ==
    /\ pc = "validate"
    /\ packageJson \in
          { missingPackageJson, invalidPackageJson,
            PackageJsonOf(NoVersion, NoVersion),
            PackageJsonOf(NoVersion, <<"^", "3", ".", "0">>),
            PackageJsonOf(<<"^", "4", ".", "0">>, NoVersion) }
    /\ \E cfg \in CfgStates \ {postcssConfigPath :> userPostcssConfig},
          lock \in {EmptyFs, yarnLockPath :> <<>>},
          css \in FsStates({possibleCssPaths[3]}, {<< "body{}\n" >>}, 1),
          idx \in FsStates({IndexPath(<< <<"src">>, <<"components">> >>, "tsx")},
                           {SubSeq(ExportStatement("Button", "button", "tsx"), 1, 8)}, 1) :
          fs = cfg @@ lock @@ css @@ idx
    /\ dirs = DirsOf(fs)
    /\ req = NoReq
    /\ filesToDownload = <<>>
    /\ fileIdx = 0
    /\ Fresh
    /\ NoToasts

Next ==
    \/ Validate
    \/ PromptTarget
    \/ EnsureTargetDir
    \/ SelectItem
    \/ Lookup
    \/ CheckTailwind
    \/ Confirm
    \/ TwInstall
    \/ TwConfig
    \/ CssTry
    \/ CssPrompt
    \/ EnsureItemDir
    \/ Filter
    \/ FetchFile
    \/ InstallRuntime
    \/ InstallDev
    \/ Report
    \/ UpdateIndex

Spec == Init /\ [][Next]_vars

(***************************************************************************)
(* SpecCheck: checkTailwindSetup applied to every declaration of           *)
(* tailwindcss and every combination of configuration files.               *)
(***************************************************************************)
buttonReq ==
    [itemType |-> "component", targetDir |-> << <<"src">>, <<"components">> >>,
     name |-> "button", format |-> "tsx"]

InitCheck ==
    /\ pc = "check"
    /\ packageJson \in
          { invalidPackageJson } \cup
          { PackageJsonOf(dep, dev) :
              dep \in VersionStrings \cup {NoVersion},
              dev \in VersionStrings \cup {NoVersion} }
    /\ fs \in CfgStates
    /\ dirs = DirsOf(fs)
    /\ req = buttonReq
    /\ filesToDownload = <<>>
    /\ fileIdx = 0
    /\ Fresh
    /\ NoToasts

NextCheck == CheckTailwind

SpecCheck == InitCheck /\ [][NextCheck]_vars

(***************************************************************************)
(* SpecCss: createTailwindCSSFile called by setupTailwind, for every       *)
(* choice of at most MaxCssFiles existing stylesheets.                     *)
(***************************************************************************)
InitCss ==
    /\ pc = "css"
    /\ packageJson = PackageJsonOf(NoVersion, installedTailwindVersion)
    /\ \E css \in FsStates(AllCssPaths, CssContents, MaxCssFiles) :
          fs = (tailwindConfigPath :> tailwindConfigContent)
               @@ (postcssConfigPath :> postcssConfigContent) @@ css
    /\ dirs = DirsOf(fs)
    /\ req = buttonReq
    /\ filesToDownload = <<>>
    /\ fileIdx = 0
    /\ Fresh
    /\ NoToasts

NextCss ==
    \/ CssTry
    \/ CssPrompt

SpecCss == InitCss /\ [][NextCss]_vars

(***************************************************************************)
(* SpecIndex: the index update of fetchComponent / fetchTemplate, run      *)
(* up to MaxRuns times with the same arguments, for every catalog item,    *)
(* format and target directory.                                            *)
(***************************************************************************)
InitIndex ==
    /\ pc = "index"
    /\ packageJson = PackageJsonOf(NoVersion, NoVersion)
    /\ req \in UNION { [itemType : {t}, targetDir : TargetDirs,
                         name : DOMAIN CatalogOf(t), format : Formats] : t \in ItemTypes }
    /\ filesToDownload = FilterFiles(Manifest.files, req.format)
    /\ fileIdx = Len(filesToDownload)
    /\ fs \in FsStates(IndexPaths, IndexContents, 1)
    /\ dirs = DirsOf(fs) \cup Ancestors(ItemDir(req.targetDir, req.name))
    /\ Fresh
    /\ NoToasts

\* the same index update requested once more
Reinvoke ==
    /\ pc = "done"
    /\ runs < MaxRuns
    /\ runs' = runs + 1
    /\ pc' = "index"
    /\ exitCode' = -1
    /\ log' = log \o << Ev("run", NoPath, <<"again">>) >>
    /\ UNCHANGED <<packageJson, fs, dirs, req, ready, filesToDownload, fileIdx,
                   cssIdx, faults, start>>
    /\ UNCHANGED toastVars

NextIndex ==
    \/ UpdateIndex
    \/ Reinvoke

SpecIndex == InitIndex /\ [][NextIndex]_vars

(***************************************************************************)
(* SpecInstall: fetchComponent / fetchTemplate called for every catalog    *)
(* item and format, in a project without Tailwind, for every combination   *)
(* of lockfiles.                                                           *)
(***************************************************************************)
\* the initial answer of the targetDir prompt (598)
DefaultTargetDir(itemType) ==
    IF itemType = "component" THEN << <<"src">>, <<"components">> >>
    ELSE << <<"src">>, <<"templates">> >>

\* the calls fetchComponent(name, targetDir, format) and
\* fetchTemplate(name, targetDir, format) for the names of the catalog
KnownRequests ==
    UNION { [itemType : {t}, targetDir : {DefaultTargetDir(t)},
             name : DOMAIN CatalogOf(t), format : Formats] : t \in ItemTypes }

InitInstall ==
    /\ pc = "lookup"
    /\ packageJson = PackageJsonOf(NoVersion, NoVersion)
    /\ req \in KnownRequests
    /\ \E lock \in LockStates,
          css \in FsStates({possibleCssPaths[3]}, {<< "body{}\n" >>}, 1),
          idx \in FsStates({IndexPath(DefaultTargetDir("component"), "tsx")},
                           {<< "// components\n" >>}, 1) :
          fs = lock @@ css @@ idx
    /\ dirs = DirsOf(fs) \cup Ancestors(req.targetDir)
    /\ filesToDownload = <<>>
    /\ fileIdx = 0
    /\ Fresh
    /\ NoToasts

NextInstall ==
    \/ Lookup
    \/ CheckTailwind
    \/ Confirm
    \/ TwInstall
    \/ TwConfig
    \/ CssTry
    \/ CssPrompt
    \/ EnsureItemDir
    \/ Filter
    \/ FetchFile
    \/ InstallRuntime
    \/ InstallDev
    \/ Report
    \/ UpdateIndex

SpecInstall == InitInstall /\ [][NextInstall]_vars

(***************************************************************************)
(* SpecDeps: installDependencies(deps, dev) called up to MaxRuns times,    *)
(* with any of a few package lists and either flag, for every combination  *)
(* of lockfiles.                                                           *)
(***************************************************************************)
\* the package lists passed as deps
DepLists ==
    { <<>>, <<"clsx">>, <<"react-dom">>, <<"clsx", "react-dom">>,
      <<"typescript", "@types/react">> }

\* one call of installDependencies(deps, dev) (340-366)
CallInstallDependencies ==
    /\ pc = "install"
    /\ \E deps \in DepLists, dev \in BOOLEAN :
         \E ok \in (IF Len(deps) = 0 THEN {TRUE} ELSE BOOLEAN) :
            log' = log \o << Ev("call", NoPath,
                                <<IF dev THEN "dev" ELSE "runtime">> \o deps) >>
                       \o installDependencies(fs, deps, dev, ok)
    /\ IF runs < MaxRuns
       THEN runs' = runs + 1 /\ pc' = "install" /\ exitCode' = exitCode
       ELSE runs' = runs /\ pc' = "done" /\ exitCode' = 0
    /\ UNCHANGED <<packageJson, fs, dirs, req, ready, filesToDownload, fileIdx,
                   cssIdx, faults, start>>
    /\ UNCHANGED toastVars

InitDeps ==
    /\ pc = "install"
    /\ packageJson = PackageJsonOf(NoVersion, NoVersion)
    /\ fs \in LockStates
    /\ dirs = DirsOf(fs)
    /\ req = buttonReq
    /\ filesToDownload = <<>>
    /\ fileIdx = 0
    /\ Fresh
    /\ NoToasts

NextDeps == CallInstallDependencies

SpecDeps == InitDeps /\ [][NextDeps]_vars

(***************************************************************************)
(* SpecTwice: fetchComponent / fetchTemplate called up to MaxRuns times    *)
(* with the same arguments, each time in a new process.                    *)
(***************************************************************************)
\* the current run has printed no failure message
NoFailureReported ==
    \A i \in 1..Len(log) :
        /\ log[i].txt # <<"fail">>
        /\ log[i].ev = "get" => log[i].txt[2] = "ok"
        /\ log[i].ev = "print" =>
              log[i].txt[1] \notin {"Failed to install dependencies",
                                    "Failed to update index",
                                    "Failed to setup Tailwind CSS"}

\* the tool is started again with the same answers: a new process, whose
\* console is empty and which finds the project as the last run left it.
\* The first event of its log tells how the last run ended: whether it
\* reported a failure, and whether its setupTailwind returned true.
Reinstall ==
    /\ pc = "done"
    /\ runs < MaxRuns
    /\ runs' = runs + 1
    /\ pc' = "lookup"
    /\ exitCode' = -1
    /\ ready' = FALSE
    /\ cssIdx' = 0
    /\ filesToDownload' = <<>>
    /\ fileIdx' = 0
    /\ start' = [fs |-> fs, dirs |-> dirs, packageJson |-> packageJson]
    /\ log' = << Ev("run", NoPath,
                    << "again",
                       IF NoFailureReported THEN "clean" ELSE "failed",
                       IF \E i \in 1..Len(log) : log[i] = SetupSucceeded[1]
                       THEN "provisioned" ELSE "unprovisioned" >>) >>
    /\ UNCHANGED <<packageJson, fs, dirs, req, faults>>
    /\ UNCHANGED toastVars

InitTwice ==
    /\ pc = "lookup"
    /\ packageJson = PackageJsonOf(NoVersion, <<"^", "3", ".", "0">>)
    /\ req \in KnownRequests
    /\ \E cfg \in { EmptyFs,
                      (tailwindConfigPath :> userTailwindConfig)
                          @@ (postcssConfigPath :> userPostcssConfig) },
          idx \in FsStates({ IndexPath(DefaultTargetDir("component"), f) : f \in Formats },
                           {<< "// components\n" >>}, 1) :
          fs = cfg @@ idx
    /\ dirs = DirsOf(fs) \cup Ancestors(req.targetDir)
    /\ filesToDownload = <<>>
    /\ fileIdx = 0
    /\ Fresh
    /\ NoToasts

NextTwice ==
    \/ NextInstall
    \/ Reinstall

SpecTwice == InitTwice /\ [][NextTwice]_vars

(***************************************************************************)
(* The toast provider (src/unnamed/part_000, lines 254-378; the same code  *)
(* is in src/components/toaster/Toaster.jsx, lines 258-387).               *)
(*                                                                         *)
(* Time is counted in ticks.  A timer started by setTimeout holds the      *)
(* ticks left before its callback runs; time does not advance past a       *)
(* timer that is due.  An id drawn by Math.random() is taken to be         *)
(* different from the ids in the list; an id may be drawn again once the   *)
(* toast that had it is gone.                                              *)
(***************************************************************************)
MaxListLen == 3    \* toasts in the list at any time
MaxShown == 3      \* the display time of a toast is counted up to this

ToastIds == {"t1", "t2", "t3"}
Durations == {1, 2}
MaxToastsProps == {1, 2}

ToastOf(id, duration) == [id |-> id, duration |-> duration]

\* the ids of the toasts of a list
IdsOf(list) == {list[i].id : i \in 1..Len(list)}

\* the toasts of a list
ToastsOf(list) == {list[i] : i \in 1..Len(list)}

\* the toast of a list that has the id
ToastWithId(list, id) == list[CHOOSE i \in 1..Len(list) : list[i].id = id]

\* toastReducer (254-263)
toastReducer(state, action) ==
    CASE action.type = "ADD_TOAST" -> Append(state, action.payload)
      [] action.type = "REMOVE_TOAST" ->
            SelectSeqBy(state, [toast \in ToastsOf(state) |-> toast.id # action.payload])
      [] OTHER -> state

\* toasts.slice(0, maxToasts) (363)
Slice(list, n) == SubSeq(list, 1, IF Len(list) < n THEN Len(list) ELSE n)

\* visibleToasts (363) taking the last maxToasts toasts of the list
visibleToastsNewest(list, max) ==
    SubSeq(list, IF Len(list) < max THEN 1 ELSE Len(list) - max + 1, Len(list))

\* visibleToasts (363)
visibleToasts(list, max) == Slice(list, max)

\* The timers once the render that follows a dispatch is committed (299-303,
\* 370-372).  removeToast is a new function in every render of the provider
\* (358-360) and is the onClose prop of every item, so memo does not skip
\* the item and the effect's dependency onClose has changed: every item that
\* stays mounted clears its timer and starts a new one of the whole
\* duration; a new item starts its timer; an item no longer rendered clears
\* its timer.
TimersAfterRender(list, max) ==
    [id \in IdsOf(visibleToasts(list, max)) |-> ToastWithId(list, id).duration]

\* the display time of the items once the render is committed
ShownAfterRender(list, max) ==
    [id \in IdsOf(visibleToasts(list, max)) |->
        IF id \in DOMAIN shown THEN shown[id] ELSE 0]

\* dispatch(action) (346) and the render it causes: the reducer returns a
\* new array for both action types, so the provider always renders again
Dispatch(action) ==
    /\ toasts' = toastReducer(toasts, action)
    /\ lastAction' = action
    /\ timers' = TimersAfterRender(toasts', maxToasts)
    /\ shown' = ShownAfterRender(toasts', maxToasts)
    /\ UNCHANGED maxToasts
    /\ UNCHANGED cliVars

\* addToast (348-356)
addToast ==
    /\ Len(toasts) < MaxListLen
    /\ \E id \in ToastIds \ IdsOf(toasts), duration \in Durations :
          Dispatch([type |-> "ADD_TOAST", payload |-> ToastOf(id, duration)])

\* removeToast (358-360), called through useToast() or by the button of a
\* displayed item (335), with any id
removeToast ==
    \E id \in ToastIds : Dispatch([type |-> "REMOVE_TOAST", payload |-> id])

\* the callback of a due timer: onClose(toast.id) (301)
TimerFires ==
    \E id \in DOMAIN timers :
        /\ timers[id] = 0
        /\ Dispatch([type |-> "REMOVE_TOAST", payload |-> id])

\* one tick of time passes for the pending timers (301)
Tick ==
    /\ DOMAIN timers # {}
    /\ \A id \in DOMAIN timers : timers[id] > 0
    /\ timers' = [id \in DOMAIN timers |-> timers[id] - 1]
    /\ shown' = [id \in DOMAIN shown |->
                    IF shown[id] < MaxShown THEN shown[id] + 1 ELSE MaxShown]
    /\ UNCHANGED <<toasts, maxToasts, lastAction>>
    /\ UNCHANGED cliVars

\* the command-line installer is not running
NoCli ==
    /\ pc = "done"
    /\ packageJson = PackageJsonOf(NoVersion, NoVersion)
    /\ fs = EmptyFs
    /\ dirs = {}
    /\ req = buttonReq
    /\ filesToDownload = <<>>
    /\ fileIdx = 0
    /\ Fresh

(***************************************************************************)
(* SpecToast: a mounted ToastProvider and the calls of its clients.        *)
(***************************************************************************)
InitToast ==
    /\ NoCli
    /\ toasts = <<>>
    /\ maxToasts \in MaxToastsProps
    /\ timers = EmptyFs
    /\ shown = EmptyFs
    /\ lastAction = [type |-> "", payload |-> ""]

NextToast ==
    \/ addToast
    \/ removeToast
    \/ TimerFires
    \/ Tick

SpecToast == InitToast /\ [][NextToast]_vars

(***************************************************************************)
(* SpecToastTimers: the provider when nobody calls removeToast and no      *)
(* button is clicked.  Time passes, and the callback of a due timer runs   *)
(* unless the timer is cleared first.                                      *)
(***************************************************************************)
NextToastTimers ==
    \/ addToast
    \/ TimerFires
    \/ Tick

SpecToastTimers ==
    /\ InitToast
    /\ [][NextToastTimers]_vars
    /\ WF_vars(Tick)
    /\ WF_vars(TimerFires)

(***************************************************************************)
(* Properties.                                                             *)
(***************************************************************************)
\* the log holds an event
Logged(e) == \E i \in 1..Len(log) : log[i] = e

\* the positions of the log whose event is of kind ev
EventsOf(ev) == { i \in 1..Len(log) : log[i].ev = ev }

\* the number of positions of a sequence that hold x
Count(s, x) == Cardinality({ i \in 1..Len(s) : s[i] = x })

\* the filter step of the current run has been executed
Filtered == Logged(Ev("step", NoPath, <<"fetch">>))

\* C2: for every manifest and requested format, the list of files to
\* download contains each file tagged with the requested format exactly
\* once, contains every file without a format tag, contains no file tagged
\* with the other format, and keeps the order of the manifest.
FilterExhaustiveExclusive ==
    Filtered =>
        LET M == Manifest.files
            F == filesToDownload
        IN  /\ \A i \in 1..Len(M) :
                  /\ M[i].format = req.format => Count(F, M[i]) = 1
                  /\ M[i].format = NoFormat => Count(F, M[i]) >= 1
            /\ \A j \in 1..Len(F) :
                  /\ F[j].format \in {req.format, NoFormat}
                  /\ Count(M, F[j]) >= 1
            /\ \A j \in 1..Len(F), k \in 1..Len(F) :
                  j < k => \E a \in 1..Len(M), b \in 1..Len(M) :
                              a < b /\ M[a] = F[j] /\ M[b] = F[k]

\* the button manifest filtered for tsx: Button.jsx is left out, the
\* stylesheet without tag is kept after Button.tsx
FilterWitness ==
    /\ Filtered
    /\ req.name = "button" /\ req.format = "tsx"
    /\ Len(filesToDownload) = 2
    /\ filesToDownload[2].format = NoFormat

(***************************************************************************)
(* The index update (SpecIndex).                                           *)
(***************************************************************************)
\* the index file and the export line of the current request
CurrentIndexPath == IndexPath(req.targetDir, req.format)
CurrentExport ==
    ExportStatement(ExportSymbol(req.itemType, req.name, filesToDownload),
                    req.name, req.format)

\* the positions of the log at which the update was requested again
Reruns == { i \in 1..Len(log) : log[i] = Ev("run", NoPath, <<"again">>) }

\* a file-system call of the first invocation raised an error
FirstRunRaised ==
    \E i \in 1..Len(log) :
        /\ log[i].txt = <<"fail">>
        /\ \A j \in Reruns : i < j

\* the index file held the export line before the first invocation
StartedWithExport ==
    /\ CurrentIndexPath \in DOMAIN start.fs
    /\ Includes(start.fs[CurrentIndexPath], CurrentExport)

\* C1: for every catalog item, format and target directory, starting from
\* an index file that is absent or lacks the export line, once the index
\* update has run a second time with the same arguments (its first run
\* having raised no file-system error) the index file holds exactly one
\* occurrence of the export line, and no run after the first has written
\* to the file system.
IndexAppendIdempotent ==
    (pc = "done" /\ runs >= 2 /\ ~StartedWithExport /\ ~FirstRunRaised) =>
        /\ CurrentIndexPath \in DOMAIN fs
        /\ Cardinality(Occurrences(fs[CurrentIndexPath], CurrentExport)) = 1
        /\ \A i \in 1..Len(log) :
              ~(log[i].ev \in WriteEvents /\ \E j \in Reruns : j < i)

\* the update of serverSideErrors/jsx has run twice from an absent index
\* file, and the second run reported the export as already present
IndexTwiceWitness ==
    /\ pc = "done" /\ runs = 2 /\ faults = 0
    /\ req.name = "serverSideErrors" /\ req.format = "jsx"
    /\ CurrentIndexPath \notin DOMAIN start.fs
    /\ log[Len(log)] = Ev("print", CurrentIndexPath, <<"Export already exists">>)

(***************************************************************************)
(* The prerequisite check (SpecCheck).                                     *)
(***************************************************************************)
\* the major version a version string names: the number written by the
\* digits that follow an optional ^ or ~
Digits == {"0", "1", "2", "3", "4", "5", "6", "7", "8", "9"}

RECURSIVE LeadingDigits(_)
LeadingDigits(v) ==
    IF v = <<>> \/ Head(v) \notin Digits THEN <<>>
    ELSE <<Head(v)>> \o LeadingDigits(Tail(v))

DigitValue(d) ==
    CHOOSE n \in 0..9 : <<"0", "1", "2", "3", "4", "5", "6", "7", "8", "9">>[n + 1] = d

RECURSIVE NumeralValue(_)
NumeralValue(ds) ==
    IF ds = <<>> THEN 0
    ELSE 10 * NumeralValue(SubSeq(ds, 1, Len(ds) - 1)) + DigitValue(ds[Len(ds)])

MajorOf(version) ==
    NumeralValue(LeadingDigits(
        IF version # <<>> /\ version[1] \in {"^", "~"} THEN Tail(version) ELSE version))

\* checkTailwindSetup has returned
Checked == \E i \in 1..Len(log) : log[i].ev = "check"

\* C4: whenever package.json declares tailwindcss with a version string
\* (with or without a ^ or ~ prefix) whose major version is not 3,
\* checkTailwindSetup returns unsatisfied, whatever configuration files exist.
CheckIsVersionSensitive ==
    (Checked /\ pc \in {"confirm", "ensureItemDir"} /\ packageJson.valid) =>
        LET version == MergedTailwind(packageJson)
        IN  (version # NoVersion /\ MajorOf(version) # 3) => ~ready

(***************************************************************************)
(* The stylesheet locator (SpecCss).                                       *)
(***************************************************************************)
\* the indexes of the conventional paths that existed at the call
ExistingAtCall == { i \in 1..Len(possibleCssPaths) : possibleCssPaths[i] \in DOMAIN start.fs }

\* the index of the first of them
FirstExisting == CHOOSE i \in ExistingAtCall : \A j \in ExistingAtCall : i <= j

\* the operator has been asked for a stylesheet path
AskedCssPath == \E i \in 1..Len(log) : log[i].ev = "prompt" /\ log[i].txt[1] = "cssPath"

\* C6: whenever at least one conventional stylesheet path exists,
\* createTailwindCSSFile never asks the operator for a path and never reads
\* or writes a conventional path later in the list than the first existing
\* one, whatever the outcome of reading or writing that first file.
ShortCircuitsAtFirstExisting ==
    ExistingAtCall # {} =>
        /\ ~AskedCssPath
        /\ \A i \in 1..Len(log) :
              log[i].ev \in {"read", "write"} =>
                  \A j \in (FirstExisting + 1)..Len(possibleCssPaths) :
                      log[i].path # possibleCssPaths[j]

\* C7: when createTailwindCSSFile has returned and the calls on the first
\* existing conventional stylesheet raised no error: if the stylesheet
\* contained the marker "@tailwind" it was not written and keeps its
\* content, otherwise its content is the three directive lines followed by
\* its previous content.
FirstStylesheetGetsDirectives ==
    (pc = "ensureItemDir" /\ ExistingAtCall # {}) =>
        LET cssPath == possibleCssPaths[FirstExisting]
            before == start.fs[cssPath]
        IN  (\A i \in 1..Len(log) : ~(log[i].path = cssPath /\ log[i].txt = <<"fail">>)) =>
              IF Includes(before, tailwindMarker)
              THEN /\ fs[cssPath] = before
                   /\ \A i \in 1..Len(log) : ~(log[i].path = cssPath /\ log[i].ev = "write")
              ELSE fs[cssPath] = tailwindDirectives \o before

\* src/App.css, the first existing stylesheet, had text without the marker
\* and now starts with the directives
PrependWitness ==
    /\ pc = "ensureItemDir"
    /\ ExistingAtCall # {} /\ FirstExisting = 4
    /\ start.fs[possibleCssPaths[4]] = << "body{}\n" >>
    /\ fs[possibleCssPaths[4]] = tailwindDirectives \o << "body{}\n" >>
    /\ Logged(Ev("write", possibleCssPaths[4], <<"ok">>))

(***************************************************************************)
(* The run of the CLI (Spec).                                              *)
(***************************************************************************)
\* an item name was given and the catalog does not hold it
NameIsUnknown ==
    /\ req.itemType \in ItemTypes
    /\ req.name # NoSelection
    /\ ~Known(req.itemType, req.name)

\* an item name was given and the catalog holds it
NameIsKnown ==
    /\ req.itemType \in ItemTypes
    /\ Known(req.itemType, req.name)

LookedUp == Logged(Ev("step", NoPath, <<"lookup">>))
ReportedNotFound == Logged(Ev("print", NoPath, <<"not found">>))

ConfigFilesCreatedOnlyWhenAbsent ==
    \A p \in {tailwindConfigPath, postcssConfigPath} :
        p \in DOMAIN start.fs => (p \in DOMAIN fs /\ fs[p] = start.fs[p])

\* the number of calls of checkTailwindSetup so far
ChecksRun == Cardinality(EventsOf("check"))

\* C8: checkTailwindSetup runs at most once per installation; it has run
\* exactly once as soon as the run is past the prerequisite step of a known
\* item whose manifest sets requiresTailwind, and it never runs for an item
\* without the flag nor for an unknown item name.
PrerequisiteCheckedOncePerFlag ==
    /\ ChecksRun <= 1
    /\ ChecksRun = 1 => (LookedUp /\ NameIsKnown /\ Manifest.requiresTailwind)
    /\ (LookedUp /\ NameIsKnown /\ Manifest.requiresTailwind /\ pc # "check")
          => ChecksRun = 1

\* an installation of a flagged item has finished and the check ran once
CheckedOnceWitness ==
    /\ pc = "done"
    /\ NameIsKnown /\ Manifest.requiresTailwind
    /\ Logged(Ev("step", NoPath, <<"index">>))
    /\ ChecksRun = 1

\* the positions of the log at which setupTailwind was called
SetupCalls == { i \in 1..Len(log) : log[i] = Ev("setup", NoPath, <<"start">>) }

ConfirmedYes == Ev("prompt", NoPath, <<"setupTailwindNow", "yes">>)
ConfirmedNo == Ev("prompt", NoPath, <<"setupTailwindNow", "no">>)

\* C9: setupTailwind is called at most once per run, and only after
\* checkTailwindSetup has returned unsatisfied in this run and the operator
\* has then answered the confirmation prompt with yes; it is never called
\* when the check passed or the operator declined.
ProvisionOnlyAfterUnsatisfiedAndConfirmed ==
    /\ Cardinality(SetupCalls) <= 1
    /\ \A i \in SetupCalls :
          \E c \in 1..Len(log), q \in 1..Len(log) :
              /\ c < q /\ q < i
              /\ log[c].ev = "check" /\ log[c].txt # <<"ok">>
              /\ log[q] = ConfirmedYes
    /\ (Logged(Ev("check", NoPath, <<"ok">>)) \/ Logged(ConfirmedNo)) => SetupCalls = {}

\* setupTailwind was called in a run that has finished
ProvisionWitness ==
    /\ pc = "done"
    /\ SetupCalls # {}
    /\ Logged(Ev("setup", NoPath, <<"true">>))

\* the names of the steps started so far, in order
StepNames ==
    LET steps == SelectSeq(log, LAMBDA e : e.ev = "step")
    IN  [ i \in 1..Len(steps) |-> steps[i].txt[1] ]

IsPrefix(s, t) == Len(s) <= Len(t) /\ SubSeq(t, 1, Len(s)) = s

\* C10: the steps of a run are started in the order validate, lookup,
\* prerequisite (when flagged), fetch, runtime dependencies, dev
\* dependencies, index update and only then the final report, each at
\* most once.
StepsInClaimedOrder ==
    IsPrefix(StepNames,
             IF NameIsKnown /\ ~Manifest.requiresTailwind
             THEN << "validate", "lookup", "fetch", "deps", "devDeps", "index", "report" >>
             ELSE << "validate", "lookup", "prerequisite", "fetch", "deps", "devDeps",
                     "index", "report" >>)

(***************************************************************************)
(* Failures and the end of the run (Spec).                                 *)
(***************************************************************************)
\* the process has ended
Ended == pc \in {"done", "exited", "crashed"}

\* fetchComponent / fetchTemplate has been called with a name of the
\* catalog, in a project that has a package.json
KnownItemRun ==
    /\ start.packageJson.exists
    /\ NameIsKnown
    /\ LookedUp

IndexStepRun == Logged(Ev("step", NoPath, <<"index">>))

\* C11: a run for a known item in a project with package.json does not
\* end before it has executed the index update step, whatever the earlier
\* steps did: provisioning failed or declined, downloads failed, install
\* commands exited non-zero, calls on the file system raised.
RunReachesIndexUpdate ==
    (KnownItemRun /\ Ended) => IndexStepRun

\* the positions of the log at which a call on the local file system raised
LocalErrors ==
    { i \in 1..Len(log) :
        log[i].ev \in WriteEvents \cup {"read"} /\ log[i].txt = <<"fail">> }

\* C12: with package.json present and a known item, for either format, no
\* error of the local file system (the creation of targetDir/itemName
\* included) and no empty filtered list aborts the run: the process does
\* not end on an uncaught error, every such error is followed by a message
\* on the console, and the steps after the fetch are executed.
LocalErrorsNeverAbort ==
    KnownItemRun =>
        /\ pc # "crashed"
        /\ Ended =>
              /\ \A i \in LocalErrors :
                    \E j \in (i + 1)..Len(log) : log[j].ev = "print"
              /\ Logged(Ev("step", NoPath, <<"deps">>))
              /\ Logged(Ev("step", NoPath, <<"devDeps">>))

\* C13: the process exits with a non-zero status if and only if
\* package.json was missing at the initial check; after every later failure
\* (cancelled prompt, directory creation, download, shell command, index
\* write) it exits with status zero.
ExitsNonZeroOnlyWithoutPackageJson ==
    Ended => (exitCode # 0 <=> ~start.packageJson.exists)

(***************************************************************************)
(* The fetch step (SpecInstall).                                           *)
(***************************************************************************)
\* the download attempts made so far, in order
FetchAttempts == SelectSeq(log, LAMBDA e : e.ev = "get")

\* the fetch loop has been left
PastFetch == pc \in {"deps", "devDeps", "report", "index", "done"}

\* the destination of the k-th file of the filtered list
DestOf(k) == DestPath(req.targetDir, req.name, filesToDownload[k].filename)

\* C14: the download attempts are, in the order of the filtered list, one
\* attempt per file; once the fetch loop is left every file of the list
\* has been attempted exactly once, whatever attempts failed before it;
\* and every attempt is followed, before the next attempt, by a report on
\* that file: added when it was downloaded and written, failed otherwise.
EveryFileAttemptedOnce ==
    Filtered =>
        /\ Len(FetchAttempts) <= Len(filesToDownload)
        /\ \A k \in 1..Len(FetchAttempts) :
              /\ FetchAttempts[k].path = DestOf(k)
              /\ FetchAttempts[k].txt[1] = filesToDownload[k].url
        /\ PastFetch => Len(FetchAttempts) = Len(filesToDownload)
        /\ \A i \in EventsOf("get") :
              \E j \in (i + 1)..Len(log) :
                  /\ log[j].ev = "print" /\ log[j].path = log[i].path
                  /\ \A m \in (i + 1)..j : log[m].ev # "get"
                  /\ log[j].txt = <<"Added">>
                        <=> /\ log[i].txt[2] = "ok"
                            /\ log[i + 1] = Ev("write", log[i].path, <<"ok">>)

\* the download of Button.tsx failed, and button-animations.css was
\* attempted after it and written
LaterFileWitness ==
    /\ pc = "done"
    /\ req.name = "button" /\ req.format = "tsx"
    /\ Len(FetchAttempts) = 2
    /\ FetchAttempts[1].txt[2] = "fail"
    /\ Logged(Ev("write", DestOf(2), <<"ok">>))
    /\ DestOf(2) \in DOMAIN fs

(***************************************************************************)
(* Shell commands (SpecInstall, SpecDeps).                                 *)
(***************************************************************************)
\* the priority rule of the lockfiles
ManagerByPriority(hasYarnLock, hasPnpmLock) ==
    CASE hasYarnLock -> "yarn"
      [] ~hasYarnLock /\ hasPnpmLock -> "pnpm"
      [] OTHER -> "npm"

\* the positions of the log at which a shell command was issued
Commands == EventsOf("exec")

\* the manager a command is addressed to
ManagerOf(i) == log[i].txt[1]

\* the command of setupTailwind, and the commands of installDependencies
IsSetupCommand(i) == log[i].txt = TailwindInstallCmd(ManagerOf(i))

\* C15: every shell command of a run, the one of setupTailwind as well as
\* those of installDependencies, is addressed to yarn when yarn.lock exists
\* (pnpm-lock.yaml existing or not), else to pnpm when pnpm-lock.yaml
\* exists, else to npm; the commands of one run name the same manager.
OneManagerByLockfilePriority ==
    /\ \A i \in Commands :
          ManagerOf(i) = ManagerByPriority(yarnLockPath \in DOMAIN fs,
                                           pnpmLockPath \in DOMAIN fs)
    /\ \A i \in Commands, j \in Commands : ManagerOf(i) = ManagerOf(j)

\* with both lockfiles present setupTailwind and installDependencies have
\* each issued a command, both to yarn
BothLockfilesWitness ==
    /\ yarnLockPath \in DOMAIN fs /\ pnpmLockPath \in DOMAIN fs
    /\ \E i \in Commands, j \in Commands :
          /\ IsSetupCommand(i) /\ ~IsSetupCommand(j)
          /\ ManagerOf(i) = "yarn" /\ ManagerOf(j) = "yarn"

\* the positions of the log at which installDependencies was called
Calls == EventsOf("call")

\* the arguments of the call at position i
DepsOf(i) == Tail(log[i].txt)
DevOf(i) == log[i].txt[1] = "dev"

\* the commands issued by the call at position i
CommandsOf(i) ==
    { j \in Commands : i < j /\ \A k \in Calls : ~(i < k /\ k < j) }

\* the install verb and the dev-install flags of each manager
InstallVerb == [npm |-> "install", yarn |-> "add", pnpm |-> "add"]
DevFlag == [npm |-> "--save-dev", yarn |-> "--dev", pnpm |-> "--save-dev"]
DevFlags == {"--save-dev", "--dev", "-D"}

\* the words of a command
Words(cmd) == { cmd[k] : k \in 1..Len(cmd) }

\* C16: a call of installDependencies with an empty list issues no command,
\* prints nothing and leaves the project as it was; a call with a non-empty
\* list issues exactly one command, the install command of the detected
\* manager, that names every package of the list and carries that
\* manager's dev flag when dev is true and no dev flag when it is false.
InstallsWithOneCommand ==
    \A i \in Calls :
        IF Len(DepsOf(i)) = 0
        THEN /\ CommandsOf(i) = {}
             /\ i = Len(log) \/ i + 1 \in Calls
             /\ fs = start.fs /\ dirs = start.dirs
        ELSE /\ Cardinality(CommandsOf(i)) = 1
             /\ \A j \in CommandsOf(i) :
                   LET cmd == log[j].txt
                       pm == ManagerByPriority(yarnLockPath \in DOMAIN fs,
                                               pnpmLockPath \in DOMAIN fs)
                   IN  /\ cmd[1] = pm /\ cmd[2] = InstallVerb[pm]
                       /\ \A n \in 1..Len(DepsOf(i)) : DepsOf(i)[n] \in Words(cmd)
                       /\ DevOf(i) => DevFlag[pm] \in Words(cmd)
                       /\ ~DevOf(i) => Words(cmd) \cap DevFlags = {}

\* a dev install of two packages in a yarn project was followed by a call
\* with the empty list
DevInstallWitness ==
    /\ pc = "done"
    /\ yarnLockPath \in DOMAIN fs
    /\ \E i \in Calls :
          /\ DevOf(i) /\ Len(DepsOf(i)) = 2
          /\ \E j \in CommandsOf(i) : "--dev" \in Words(log[j].txt)
    /\ \E i \in Calls : Len(DepsOf(i)) = 0

(***************************************************************************)
(* The steps after the fetch, and the button scenario (SpecInstall).       *)
(***************************************************************************)
\* the k-th file of the filtered list was written by the fetch step
Fetched(k) == Logged(Ev("write", DestOf(k), <<"ok">>))

InstallFailed ==
    \E i \in EventsOf("print") : log[i].txt[1] = "Failed to install dependencies"

IndexFailed ==
    \E i \in EventsOf("print") : log[i].txt = <<"Failed to update index">>

\* C17: from the moment the fetch step has written a file under
\* targetDir/itemName to the end of the run, the file exists with the
\* content that was downloaded, whether the install commands and the
\* index update succeed or fail.
FetchedFilesKept ==
    Filtered =>
        \A k \in 1..Len(filesToDownload) :
            Fetched(k) =>
                /\ DestOf(k) \in DOMAIN fs
                /\ fs[DestOf(k)] = RemoteContent(filesToDownload[k].url)

\* the run has ended after a failed install command and a failed index
\* update, and the two files of button/tsx are as they were fetched
KeptAfterFailuresWitness ==
    /\ pc = "done"
    /\ InstallFailed /\ IndexFailed
    /\ req.name = "button" /\ req.format = "tsx"
    /\ Fetched(1) /\ Fetched(2)
    /\ fs[DestOf(1)] = RemoteContent(filesToDownload[1].url)

\* the paths the scenario names
buttonTsxPath == << <<"src">>, <<"components">>, <<"button">>, <<"Button", "tsx">> >>
buttonJsxPath == << <<"src">>, <<"components">>, <<"button">>, <<"Button", "jsx">> >>
buttonCssPath ==
    << <<"src">>, <<"components">>, <<"button">>, <<"button-animations", "css">> >>
componentsIndexTs == << <<"src">>, <<"components">>, <<"index", "ts">> >>
buttonExportLine ==
    << "export { default as ", "Button", " } from './", "button", "/", "Button",
       ".", "tsx", "';\n" >>

\* no call on the file system, download or shell command has failed and
\* no prompt was cancelled
AllIoSucceeded ==
    /\ faults = 0
    /\ \A i \in 1..Len(log) :
          /\ log[i].txt # <<"fail">>
          /\ log[i].ev = "get" => log[i].txt[2] = "ok"
          /\ log[i].ev = "prompt" => log[i].txt[Len(log[i].txt)] # "cancelled"
          /\ log[i] # Ev("setup", NoPath, <<"false">>)
    /\ ~InstallFailed

\* button/tsx has been installed into src/components of a project without
\* tailwind.config.js, the operator confirmed, all I/O succeeded
ButtonScenario ==
    /\ pc = "done"
    /\ req = buttonReq
    /\ tailwindConfigPath \notin DOMAIN start.fs
    /\ Logged(ConfirmedYes)
    /\ AllIoSucceeded

AfterCleanRun ==
    /\ runs >= 2
    /\ log[1].ev = "run" /\ log[1].txt[2] = "clean"

\* C19: when an installation that reported no failure is run again with
\* the same arguments and unchanged remote content, and again nothing
\* fails, the second run downloads and writes every file of the filtered
\* list, every fetched file and the index file end with the content they
\* had after the first run, and the index update reports that the export
\* already exists and does not write.
ReinstallIsIdempotent ==
    (pc = "done" /\ AfterCleanRun /\ NoFailureReported) =>
        /\ \A k \in 1..Len(filesToDownload) :
              /\ Logged(Ev("get", DestOf(k), <<filesToDownload[k].url, "ok">>))
              /\ Fetched(k)
              /\ DestOf(k) \in DOMAIN start.fs
              /\ fs[DestOf(k)] = start.fs[DestOf(k)]
        /\ CurrentIndexPath \in DOMAIN start.fs
        /\ fs[CurrentIndexPath] = start.fs[CurrentIndexPath]
        /\ Logged(Ev("print", CurrentIndexPath, <<"Export already exists">>))
        /\ \A i \in 1..Len(log) :
              ~(log[i].ev \in WriteEvents /\ log[i].path = CurrentIndexPath)

\* button/tsx has been installed twice without failure; the second run
\* wrote both files again and found the export line
ReinstallWitness ==
    /\ pc = "done" /\ AfterCleanRun /\ NoFailureReported
    /\ req.name = "button" /\ req.format = "tsx"
    /\ Fetched(1) /\ Fetched(2)
    /\ fs[CurrentIndexPath] = CurrentExport
    /\ Logged(Ev("print", CurrentIndexPath, <<"Export already exists">>))

(***************************************************************************)
(* The frame of the prerequisite check (SpecCheck).                        *)
(***************************************************************************)
\* C20: once checkTailwindSetup has returned, whether satisfied,
\* unsatisfied or after failing to read package.json, every file and
\* directory of the project, package.json included, is as it was before
\* the call.
CheckIsReadOnly ==
    Checked =>
        /\ fs = start.fs
        /\ dirs = start.dirs
        /\ packageJson = start.packageJson

\* the check has failed to read package.json in a project that holds
\* tailwind.config.js only
ReadErrorWitness ==
    /\ Logged(Ev("check", NoPath, <<"read-error">>))
    /\ ~ready
    /\ DOMAIN fs = {tailwindConfigPath}

(***************************************************************************)
(* The outcomes of the prerequisite check (SpecCheck).                     *)
(***************************************************************************)
\* checkTailwindSetup has returned on a package.json that could be read
CheckedReadable == Checked /\ packageJson.valid

BothConfigsExist ==
    tailwindConfigPath \in DOMAIN fs /\ postcssConfigPath \in DOMAIN fs

DeclaredNowhere ==
    packageJson.dependencies = NoVersion /\ packageJson.devDependencies = NoVersion

\* some dependency section declares tailwindcss at major version 3
MajorThreeInEitherSection ==
    \E v \in {packageJson.dependencies, packageJson.devDependencies} :
        v # NoVersion /\ MajorOf(v) = 3

\* the declaration in force when a package is declared in both sections:
\* the one of devDependencies
DeclarationInForce ==
    IF packageJson.devDependencies # NoVersion THEN packageJson.devDependencies
    ELSE packageJson.dependencies

\* C21 as stated: the check returns unsatisfied when tailwindcss is declared
\* in neither section and when a configuration file is missing, and
\* satisfied when tailwindcss is declared at major version 3 in either
\* section and both configuration files exist.
CheckOutcomesEitherSection ==
    CheckedReadable =>
        /\ DeclaredNowhere => ~ready
        /\ ~BothConfigsExist => ~ready
        /\ (MajorThreeInEitherSection /\ BothConfigsExist) => ready

\* C21, amended: the check returns unsatisfied when tailwindcss is declared
\* in neither section and when a configuration file is missing, and
\* satisfied when both configuration files exist and the declaration in
\* force (that of devDependencies when both sections declare the package)
\* is at major version 3.
CheckOutcomesMergedDeclaration ==
    CheckedReadable =>
        /\ DeclaredNowhere => ~ready
        /\ ~BothConfigsExist => ~ready
        /\ (DeclarationInForce # NoVersion /\ MajorOf(DeclarationInForce) = 3
              /\ BothConfigsExist) => ready

\* the check has passed on a project that declares major version 4 in
\* dependencies and major version 3 in devDependencies
MergedDeclarationWitness ==
    /\ CheckedReadable /\ ready
    /\ BothConfigsExist
    /\ packageJson.dependencies = <<"^", "4", ".", "0">>
    /\ packageJson.devDependencies = <<"^", "3", ".", "0">>

(***************************************************************************)
(* The index files across installations (SpecTwice).                       *)
(***************************************************************************)
\* the index files of the two target directories
indexFiles ==
    { d \o << <<"index", e>> >> : d \in TargetDirs, e \in {"ts", "js"} }

\* the extension of the index file that goes with a format
ExtensionFor(format) == IF format = "tsx" THEN "ts" ELSE "js"

\* C22: in every step of every installation, an index.ts or index.js that
\* exists keeps existing and its content before the step is a prefix of
\* its content after it; and an index file that the step creates or
\* changes lies in the target directory of the installation and has the
\* extension of its format: ts for tsx, js for jsx.
IndexAppendOnlyPerFormat ==
    [][ \A p \in indexFiles :
          /\ p \in DOMAIN fs => (p \in DOMAIN fs' /\ IsPrefix(fs[p], fs'[p]))
          /\ (p \in DOMAIN fs' /\ (p \notin DOMAIN fs \/ fs'[p] # fs[p])) =>
                p = req.targetDir \o << <<"index", ExtensionFor(req.format)>> >>
      ]_vars

\* an installation with format tsx has appended its export line to an
\* index.ts that held other text, and has created no index.js
AppendedAfterTextWitness ==
    /\ pc = "done" /\ req.name = "button" /\ req.format = "tsx"
    /\ CurrentIndexPath \in DOMAIN start.fs
    /\ start.fs[CurrentIndexPath] = << "// components\n" >>
    /\ fs[CurrentIndexPath] = << "// components\n" >> \o CurrentExport
    /\ \A p \in indexFiles : p \in DOMAIN fs => p = CurrentIndexPath

(***************************************************************************)
(* The catalog (SpecInstall).                                              *)
(***************************************************************************)
\* the manifests of both catalogs
Manifests == UNION { { CatalogOf(t)[n] : n \in DOMAIN CatalogOf(t) } : t \in ItemTypes }

\* C23: in every manifest of both catalogs the filenames are pairwise
\* distinct and every format tag that is present is tsx or jsx; and at
\* every moment of a run past the filter, the list the run works on is
\* still the filtered file list of the catalog entry of the request.
CatalogWellFormed ==
    /\ \A m \in Manifests :
          /\ \A i \in 1..Len(m.files), j \in 1..Len(m.files) :
                i # j => m.files[i].filename # m.files[j].filename
          /\ \A i \in 1..Len(m.files) :
                m.files[i].format # NoFormat => m.files[i].format \in {"tsx", "jsx"}
    /\ Filtered =>
          filesToDownload =
              SelectSeq(CatalogOf(req.itemType)[req.name].files,
                        LAMBDA f : f.format \in {NoFormat, req.format})

\* an installation of button, the manifest with three files one of which
\* has no tag, has ended
CatalogWitness ==
    /\ pc = "done" /\ Filtered
    /\ req.name = "button"
    /\ Len(CatalogOf("component")["button"].files) = 3
    /\ \E i \in 1..3 : CatalogOf("component")["button"].files[i].format = NoFormat

(***************************************************************************)
(* The module an export line names (SpecIndex).                            *)
(***************************************************************************)
\* the file name in the `from` part of an export line: tokens 6 and 8 of
\* "export { default as S } from './N/S.F';"
ModuleFileOf(exportLine) == << exportLine[6], exportLine[8] >>

\* the index update of this run has appended an export line
ExportAppended ==
    \E i \in EventsOf("append") :
        log[i] = Ev("append", CurrentIndexPath, <<"ok">>)

\* C24: for every catalog item and format, when the index update has
\* appended its export line, the module file the line names is the file
\* name of an entry of the filtered download list of the run.
ExportNamesFetchedFile ==
    ExportAppended =>
        \E k \in 1..Len(filesToDownload) :
            filesToDownload[k].filename = ModuleFileOf(CurrentExport)

(***************************************************************************)
(* The frame of the stylesheet locator (SpecCss).                          *)
(***************************************************************************)
IsSuffix(s, t) == Len(s) <= Len(t) /\ SubSeq(t, Len(t) - Len(s) + 1, Len(t)) = s

\* C25: at every moment of createTailwindCSSFile, for every project state
\* and every answer to the prompt, each file that existed before the call
\* exists and has its previous content as a suffix of its content.
StylesheetContentKept ==
    \A p \in DOMAIN start.fs :
        /\ p \in DOMAIN fs
        /\ IsSuffix(start.fs[p], fs[p])

(***************************************************************************)
(* Provisioning (SpecInstall, SpecTwice).                                  *)
(***************************************************************************)
\* the install command of setupTailwind exited non-zero: the command is
\* followed at once by the failure message, not by a write of
\* tailwind.config.js
TailwindInstallFailed ==
    \E i \in Commands :
        /\ IsSetupCommand(i)
        /\ i < Len(log)
        /\ log[i + 1] = Ev("print", NoPath, <<"Failed to setup Tailwind CSS">>)

\* the files setupTailwind is in charge of
provisionedPaths == {tailwindConfigPath, postcssConfigPath} \cup AllCssPaths

\* C26: when the Tailwind install command has exited non-zero,
\* setupTailwind has returned failure, the run has written neither
\* tailwind.config.js nor postcss.config.js nor a stylesheet, each of
\* which is as it was before, and the operator was not asked for a
\* stylesheet path.
FailedInstallProvisionsNothing ==
    TailwindInstallFailed =>
        /\ Logged(Ev("setup", NoPath, <<"false">>))
        /\ ~Logged(Ev("setup", NoPath, <<"true">>))
        /\ ~AskedCssPath
        /\ \A i \in 1..Len(log) :
              ~(log[i].ev \in WriteEvents /\ log[i].path \in provisionedPaths)
        /\ \A p \in provisionedPaths :
              /\ p \in DOMAIN fs <=> p \in DOMAIN start.fs
              /\ p \in DOMAIN fs => fs[p] = start.fs[p]

\* an installation has ended whose Tailwind install command failed, in a
\* project that has src/index.css and no configuration file
FailedInstallWitness ==
    /\ pc = "done"
    /\ TailwindInstallFailed
    /\ possibleCssPaths[3] \in DOMAIN fs
    /\ tailwindConfigPath \notin DOMAIN fs

\* this run follows a run in which setupTailwind returned true
AfterProvisioning ==
    /\ runs >= 2
    /\ log[1].ev = "run" /\ log[1].txt[3] = "provisioned"

TimerRunsFromFirstDisplay ==
    \A id \in DOMAIN timers :
        shown[id] + timers[id] = ToastWithId(toasts, id).duration

(***************************************************************************)
(* C29.                                                                    *)
(***************************************************************************)
\* C29: when no button is clicked and removeToast is not called, every
\* toast that addToast has put in the list, displayed or waiting behind
\* maxToasts displayed toasts, is eventually removed from the list by its
\* timer, provided that time passes and that the callback of a due timer
\* that is not cleared runs.
EveryToastDismissed ==
    \A id \in ToastIds : (id \in IdsOf(toasts)) ~> (id \notin IdsOf(toasts))

(***************************************************************************)
(* C30.                                                                    *)
(***************************************************************************)
\* the toast list without its i-th toast
Without(list, i) == SubSeq(list, 1, i - 1) \o SubSeq(list, i + 1, Len(list))

\* the toasts that have a mounted item are the first min(maxToasts, n)
\* toasts of the list
DisplayedAreFirst ==
    /\ DOMAIN timers =
          {toasts[i].id :
              i \in 1..(IF maxToasts < Len(toasts) THEN maxToasts ELSE Len(toasts))}
    /\ Cardinality(DOMAIN timers) <= maxToasts

\* what the step of a call does to the list
ListStep ==
    \/ lastAction' = lastAction /\ toasts' = toasts
    \/ /\ lastAction'.type = "ADD_TOAST"
       /\ toasts' = toasts \o <<lastAction'.payload>>
    \/ /\ lastAction'.type = "REMOVE_TOAST"
       /\ lastAction'.payload \notin IdsOf(toasts)
       /\ toasts' = toasts
    \/ /\ lastAction'.type = "REMOVE_TOAST"
       /\ \E i \in 1..Len(toasts) :
             /\ toasts[i].id = lastAction'.payload
             /\ toasts' = Without(toasts, i)

\* C30: after every addToast and removeToast call the displayed toasts are
\* exactly the first min(maxToasts, n) toasts of the list, at most
\* maxToasts of them, and the list is in insertion order: addToast puts
\* the new toast last, removeToast with an id that is not in the list
\* leaves the list as it was, and removing a toast leaves the others in
\* their order.
DisplayedFirstInInsertionOrder == [][DisplayedAreFirst' /\ ListStep]_vars

\* a toast was removed from a list longer than maxToasts, and the list is
\* still longer than maxToasts
RemovedBehindDisplayedWitness ==
    /\ lastAction.type = "REMOVE_TOAST"
    /\ Len(toasts) > maxToasts
    /\ DOMAIN timers = IdsOf(SubSeq(toasts, 1, maxToasts))

====
